---- MODULE Spec2Model ----
(***************************************************************************)
(* A model of src/server.c: the accept loop (run_server), the per-client   *)
(* drain (handle_client), the buffer operations (make_client_buffer,       *)
(* read_available, slice_client_buffer) and the panic macro.               *)
(*                                                                         *)
(* The server is one thread: run_server calls handle_client inline.  The   *)
(* peers (connect, send) are the environment.  slice_client_buffer has no  *)
(* caller in the file; a second thread that calls it on any constructed    *)
(* client_buffer is modelled so that its locking can be examined.          *)
(*                                                                         *)
(* A byte is named by where it came from: <<c, p>> is the p-th byte (from  *)
(* 0) that the peer of connection c sent.  The backing storage of a        *)
(* client_buffer is kept as the list of the writes made into it (offset,   *)
(* count, stream position), clipped to the allocation.                     *)
(***************************************************************************)
EXTENDS Integers, Sequences, FiniteSets, TLC

\* ---------------------------------------------------------------- bounds
\* connections the peers attempt
MaxConns == 2
\* send calls a peer makes on one connection
MaxSends == 1
\* the indices the second thread passes as l and r
Indices == {0, 1}

\* the sizes of the chunks a peer sends in one send call
ChunkSizes == {1000, 1025}

\* values an uninitialised byte of storage may turn out to hold
Garbage == {<<0, 0>>, <<1, 0>>}

\* ------------------------------------------------------- program constants
\* run_server: make_client_buffer(client, 1024)
INITIAL_SIZE == 1024

\* config.nrequests, "maximum number of requests we process simultaneously":
\* main passes PROCESSOR_COUNT * 100, PROCESSOR_COUNT being given to the
\* compiler; no code reads the field, and the model is run with a small one
nrequests == 1

VARIABLES
  connected,    \* connections the peers have opened (the listen queue, in order)
  sent,         \* sent[c]: bytes the peer of c has sent so far
  nsends,       \* nsends[c]: send calls the peer of c has made
  consumed,     \* consumed[c]: bytes read(2) has taken off the socket of c
  pc,           \* where the server thread is
  accepted,     \* connections accept has returned; the current client is the last
  lock,         \* lock[b]: value of client_buffer->lock
  size,         \* size[b]: client_buffer->size
  bytes_read,   \* bytes_read[b]: client_buffer->bytes_read
  alloc,        \* alloc[b]: bytes of storage behind client_buffer->buffer
  buffer,       \* buffer[b]: the writes made into the storage
  overflow,     \* overflow[b]: bytes read(2) was told to store past the storage
  available,    \* read_available: int available
  length,       \* read_available: int length
  read,         \* handle_client: int read
  idle,         \* idle[b]: a call of read_available on b has returned 0
  appended,     \* appended[b]: sum of what those calls returned
  reported,     \* reported[b]: the "Received %d bytes" output for b, -1 before
  released,     \* released[b]: handle_client has posted the lock of b
  spc,          \* where the second thread is in slice_client_buffer
  sb, sl, sr,   \* its arguments: client_buffer, l, r
  to            \* the destination, as the bytes stored into it by offset

vars == <<connected, sent, nsends, consumed, pc, accepted, lock,
          size, bytes_read, alloc, buffer, overflow, available, length,
          read, idle, appended, reported, released, spc, sb, sl, sr, to>>

envVars == <<connected, sent, nsends>>
bufVars == <<size, bytes_read, alloc, buffer, overflow>>
localVars == <<available, length, read>>
sliceVars == <<spc, sb, sl, sr, to>>
ghostVars == <<idle, appended, reported, released>>

Conns == 1..MaxConns

\* ------------------------------------------------------------- helpers
Min(a, b) == IF a < b THEN a ELSE b
Max(a, b) == IF a > b THEN a ELSE b

\* the process has called exit (panic) or was killed (memory error)
Exited == pc \in {"panicked", "crashed"}

\* the client being handled: the last one accepted
cur == accepted

\* storage after realloc(buffer, n): the first Min(old, n) bytes are kept
RECURSIVE Clip(_, _)
Clip(ws, n) ==
  IF ws = << >> THEN << >>
  ELSE LET w == Head(ws)
           k == Min(w.len, n - w.off)
       IN  IF k > 0 THEN <<[off |-> w.off, len |-> k, src |-> w.src]>> \o Clip(Tail(ws), n)
           ELSE Clip(Tail(ws), n)

\* storage after n bytes, the stream bytes from position p on, are stored at
\* offset off of a storage of a bytes; what lies past the storage is not in it
Store(ws, a, off, n, p) ==
  LET k == Min(n, a - off)
  IN  IF k > 0 THEN Append(ws, [off |-> off, len |-> k, src |-> p]) ELSE ws

\* the stream position of the byte at offset i, -1 when nothing was stored there
RECURSIVE PosAt(_, _)
PosAt(ws, i) ==
  IF ws = << >> THEN -1
  ELSE LET w == ws[Len(ws)]
       IN  IF w.off <= i /\ i < w.off + w.len THEN w.src + (i - w.off)
           ELSE PosAt(SubSeq(ws, 1, Len(ws) - 1), i)

\* buffer[i] of client_buffer b holds a byte that was stored there
Stored(b, i) == PosAt(buffer[b], i) >= 0
\* client_buffer->buffer[i] of b, where stored
ByteAt(b, i) == <<b, PosAt(buffer[b], i)>>

\* ---------------------------------------------------------------- Init
Init ==
  /\ connected = 0
  /\ sent = [c \in Conns |-> 0]
  /\ nsends = [c \in Conns |-> 0]
  /\ consumed = [c \in Conns |-> 0]
  /\ pc = "accept"
  /\ accepted = 0
  /\ lock = << >>
  /\ size = << >>
  /\ bytes_read = << >>
  /\ alloc = << >>
  /\ buffer = << >>
  /\ overflow = << >>
  /\ available = 0
  /\ length = 0
  /\ read = 0
  /\ idle = << >>
  /\ appended = << >>
  /\ reported = << >>
  /\ released = << >>
  /\ spc = "idle"
  /\ sb = 0
  /\ sl = 0
  /\ sr = 0
  /\ to = << >>

\* ------------------------------------------------------------ the peers
\* a peer opens a connection: it waits in the listen queue
peer_connect ==
  /\ ~Exited
  /\ connected < MaxConns
  /\ connected' = connected + 1
  /\ UNCHANGED <<sent, nsends, consumed, pc, accepted, lock,
                 bufVars, localVars, ghostVars, sliceVars>>

\* the peer of an open connection sends a chunk: it is queued on the socket
peer_send ==
  /\ ~Exited
  /\ \E c \in 1..connected, n \in ChunkSizes :
       /\ nsends[c] < MaxSends
       /\ sent' = [sent EXCEPT ![c] = @ + n]
       /\ nsends' = [nsends EXCEPT ![c] = @ + 1]
  /\ UNCHANGED <<connected, consumed, pc, accepted, lock,
                 bufVars, localVars, ghostVars, sliceVars>>

\* ------------------------------------------------------------ run_server
\* run_server accepting the next connection while handle_client is still to
\* run for the last one (handle_client handed to another thread)
run_server_accept_detached ==
  /\ pc \in {"accept", "h_wait"}
  /\ accepted < connected
  /\ accepted' = accepted + 1
  /\ pc' = "make"
  /\ UNCHANGED <<envVars, consumed, lock, bufVars, localVars,
                 ghostVars, sliceVars>>

\* accept returns the next connection of the listen queue; it blocks while
\* the queue is empty
run_server_accept ==
  /\ pc = "accept"
  /\ accepted < connected
  /\ accepted' = accepted + 1
  /\ pc' = "make"
  /\ UNCHANGED <<envVars, consumed, lock, bufVars, localVars,
                 ghostVars, sliceVars>>

\* accept returns -1: panic("failed to accept connection")
run_server_accept_fails ==
  /\ pc = "accept"
  /\ pc' = "panicked"
  /\ UNCHANGED <<envVars, consumed, accepted, lock, bufVars,
                 localVars, ghostVars, sliceVars>>

\* make_client_buffer(client, initial_size): a fresh client_buffer with
\* initial_size bytes of storage, nothing read, the lock free
make_client_buffer(initial_size) ==
  /\ pc = "make"
  /\ IF initial_size < 0
     THEN /\ pc' = "panicked"
          /\ UNCHANGED <<lock, bufVars, ghostVars>>
     ELSE /\ pc' = "h_wait"
          /\ alloc' = Append(alloc, initial_size)
          /\ buffer' = Append(buffer, << >>)
          /\ size' = Append(size, initial_size)
          /\ bytes_read' = Append(bytes_read, 0)
          /\ lock' = Append(lock, 1)
          /\ overflow' = Append(overflow, 0)
          /\ idle' = Append(idle, FALSE)
          /\ appended' = Append(appended, 0)
          /\ reported' = Append(reported, -1)
          /\ released' = Append(released, FALSE)
  /\ UNCHANGED <<envVars, consumed, accepted, localVars, sliceVars>>

\* run_server: handle_client(make_client_buffer(client, 1024))
run_server_make == make_client_buffer(INITIAL_SIZE)

\* --------------------------------------------------------- handle_client
\* handle_client going on without the sem_wait
handle_client_no_wait ==
  /\ pc = "h_wait"
  /\ read' = 0
  /\ pc' = "h_loop"
  /\ UNCHANGED <<envVars, consumed, accepted, lock, bufVars, available,
                 length, ghostVars, sliceVars>>

\* sem_wait(&client_buffer->lock); int read = 0;
handle_client_sem_wait ==
  /\ pc = "h_wait"
  /\ lock[cur] > 0
  /\ lock' = [lock EXCEPT ![cur] = @ - 1]
  /\ read' = 0
  /\ pc' = "h_loop"
  /\ UNCHANGED <<envVars, consumed, accepted, bufVars, available,
                 length, ghostVars, sliceVars>>

\* the loop's test: while (read == 0)
LoopAgain(r) == r = 0

\* the test of the while loop: another read_available, or on to the report
handle_client_loop ==
  /\ pc = "h_loop"
  /\ pc' = IF LoopAgain(read) THEN "ra_probe" ELSE "h_report"
  /\ UNCHANGED <<envVars, consumed, accepted, lock, bufVars,
                 localVars, ghostVars, sliceVars>>

\* handle_client printing the client_buffer's bytes_read
handle_client_report_field ==
  /\ pc = "h_report"
  /\ reported' = [reported EXCEPT ![cur] = bytes_read[cur]]
  /\ pc' = "h_post"
  /\ UNCHANGED <<envVars, consumed, accepted, lock, bufVars,
                 localVars, idle, appended, released, sliceVars>>

\* printf("\nReceived %d bytes\n", read)
handle_client_report ==
  /\ pc = "h_report"
  /\ reported' = [reported EXCEPT ![cur] = read]
  /\ pc' = "h_post"
  /\ UNCHANGED <<envVars, consumed, accepted, lock, bufVars,
                 localVars, idle, appended, released, sliceVars>>

\* handle_client returning without the sem_post
handle_client_no_post ==
  /\ pc = "h_post"
  /\ read' = 0
  /\ pc' = "accept"
  /\ UNCHANGED <<envVars, consumed, accepted, lock, bufVars, available, length,
                 ghostVars, sliceVars>>

\* handle_client posting the lock twice
handle_client_double_post ==
  /\ pc = "h_post"
  /\ lock' = [lock EXCEPT ![cur] = @ + 2]
  /\ released' = [released EXCEPT ![cur] = TRUE]
  /\ read' = 0
  /\ pc' = "accept"
  /\ UNCHANGED <<envVars, consumed, accepted, bufVars, available, length,
                 idle, appended, reported, sliceVars>>

\* sem_post(&client_buffer->lock), and back to run_server's loop (the local
\* read is gone)
handle_client_sem_post ==
  /\ pc = "h_post"
  /\ lock' = [lock EXCEPT ![cur] = @ + 1]
  /\ released' = [released EXCEPT ![cur] = TRUE]
  /\ read' = 0
  /\ pc' = "accept"
  /\ UNCHANGED <<envVars, consumed, accepted, bufVars, available, length,
                 idle, appended, reported, sliceVars>>

\* -------------------------------------------------------- read_available
\* a call of read_available returns v to handle_client: read = v (the locals
\* available and length are gone)
Return(v) ==
  /\ read' = v
  /\ available' = 0
  /\ length' = 0
  /\ idle' = [idle EXCEPT ![cur] = @ \/ v = 0]
  /\ appended' = [appended EXCEPT ![cur] = @ + v]
  /\ pc' = "h_loop"

\* read_available without the test of available: it goes on to realloc and
\* read with nothing queued
read_available_ioctl_untested ==
  /\ pc = "ra_probe"
  /\ available' = sent[cur] - consumed[cur]
  /\ pc' = "ra_grow"
  /\ UNCHANGED <<length, read, idle, appended>>
  /\ UNCHANGED <<envVars, consumed, accepted, lock, bufVars,
                 reported, released, sliceVars>>

\* ioctl(socket, FIONREAD, &available); if nothing is there, return 0
read_available_ioctl ==
  /\ pc = "ra_probe"
  /\ LET queued == sent[cur] - consumed[cur]
     IN  IF queued > 0
         THEN /\ available' = queued
              /\ pc' = "ra_grow"
              /\ UNCHANGED <<length, read, idle, appended>>
         ELSE Return(0)
  /\ UNCHANGED <<envVars, consumed, accepted, lock, bufVars,
                 reported, released, sliceVars>>

\* the test in front of realloc
Resize(b, avail) == size[b] - bytes_read[b] > avail

\* realloc to what the read needs, without the size
ReallocSizeExact(b, avail) == bytes_read[b] + avail

\* the size handed to realloc
ReallocSize(b, avail) == bytes_read[b] + avail + size[b]

\* if (size - bytes_read > available) buffer = realloc(buffer, ...)
read_available_realloc ==
  /\ pc = "ra_grow"
  /\ IF Resize(cur, available)
     THEN /\ alloc' = [alloc EXCEPT ![cur] = ReallocSize(cur, available)]
          /\ buffer' = [buffer EXCEPT ![cur] = Clip(@, ReallocSize(cur, available))]
     ELSE UNCHANGED <<alloc, buffer>>
  /\ pc' = "ra_read"
  /\ UNCHANGED <<envVars, consumed, accepted, lock, size, bytes_read,
                 overflow, localVars, ghostVars, sliceVars>>

\* what read(socket, p, n) may return when n bytes were probed: all of them,
\* fewer (a short read), or -1
ReadResults(n) == {n, n - 1, -1}

\* int length = read(socket, buffer + bytes_read, available): the bytes
\* go to offsets bytes_read.. of the storage; storing past its end is
\* undefined: the process may go on or die
read_available_read ==
  /\ pc = "ra_read"
  /\ \E res \in ReadResults(available) :
       LET n == Max(res, 0)
           past == Max(bytes_read[cur] + n - alloc[cur], 0)
       IN  /\ length' = res
           /\ consumed' = [consumed EXCEPT ![cur] = @ + n]
           /\ buffer' = [buffer EXCEPT ![cur] =
                           Store(@, alloc[cur], bytes_read[cur], n, consumed[cur])]
           /\ overflow' = [overflow EXCEPT ![cur] = @ + past]
           /\ pc' \in IF past > 0 THEN {"ra_check", "crashed"} ELSE {"ra_check"}
  /\ UNCHANGED <<envVars, accepted, lock, size, bytes_read, alloc,
                 available, read, ghostVars, sliceVars>>

\* read_available handing back what read returned, unchecked
read_available_unchecked ==
  /\ pc = "ra_check"
  /\ Return(length)
  /\ UNCHANGED <<envVars, consumed, accepted, lock, bufVars,
                 reported, released, sliceVars>>

\* if (length != available) panic("reading available bytes"); return available;
read_available_check ==
  /\ pc = "ra_check"
  /\ IF length # available
     THEN /\ pc' = "panicked"
          /\ UNCHANGED <<localVars, idle, appended>>
     ELSE Return(available)
  /\ UNCHANGED <<envVars, consumed, accepted, lock, bufVars,
                 reported, released, sliceVars>>

\* --------------------------------------------------- slice_client_buffer
\* another thread calls slice_client_buffer(client_buffer, l, r, to)
slice_client_buffer_call ==
  /\ ~Exited
  /\ spc = "idle"
  /\ \E b \in 1..Len(lock), l \in Indices, r \in Indices :
       /\ sb' = b
       /\ sl' = l
       /\ sr' = r
  /\ to' = << >>
  /\ spc' = "wait"
  /\ UNCHANGED <<envVars, consumed, pc, accepted, lock, bufVars,
                 localVars, ghostVars>>

\* slice_client_buffer going on to the copy without the sem_wait
slice_client_buffer_no_wait ==
  /\ ~Exited
  /\ spc = "wait"
  /\ spc' = "copy"
  /\ UNCHANGED <<envVars, consumed, pc, accepted, lock, bufVars,
                 localVars, ghostVars, sb, sl, sr, to>>

\* sem_wait(&client_buffer->lock)
slice_client_buffer_sem_wait ==
  /\ ~Exited
  /\ spc = "wait"
  /\ lock[sb] > 0
  /\ lock' = [lock EXCEPT ![sb] = @ - 1]
  /\ spc' = "copy"
  /\ UNCHANGED <<envVars, consumed, pc, accepted, bufVars,
                 localVars, ghostVars, sb, sl, sr, to>>

\* for (i = l; i <= r; i++) to[i] = client_buffer->buffer[i]; a byte of the
\* storage that was never stored into reads as anything
slice_client_buffer_copy ==
  /\ ~Exited
  /\ spc = "copy"
  /\ \E g \in [sl..sr -> Garbage] :
       to' = [i \in sl..sr |-> IF Stored(sb, i) THEN ByteAt(sb, i) ELSE g[i]]
  /\ spc' = "post"
  /\ UNCHANGED <<envVars, consumed, pc, accepted, lock, bufVars,
                 localVars, ghostVars, sb, sl, sr>>

\* sem_post(&client_buffer->lock) and return: the caller is done with the copy
slice_client_buffer_sem_post ==
  /\ ~Exited
  /\ spc = "post"
  /\ lock' = [lock EXCEPT ![sb] = @ + 1]
  /\ spc' = "idle"
  /\ sb' = 0
  /\ sl' = 0
  /\ sr' = 0
  /\ to' = << >>
  /\ UNCHANGED <<envVars, consumed, pc, accepted, bufVars,
                 localVars, ghostVars>>

\* ------------------------------------------------------------------ Spec
\* the program: the server thread, and the peers
Next ==
  \/ peer_connect
  \/ peer_send
  \/ run_server_accept
  \/ run_server_accept_fails
  \/ run_server_make
  \/ handle_client_sem_wait
  \/ handle_client_loop
  \/ handle_client_report
  \/ handle_client_sem_post
  \/ read_available_ioctl
  \/ read_available_realloc
  \/ read_available_read
  \/ read_available_check

Spec == Init /\ [][Next]_vars

\* the program with a second thread that calls slice_client_buffer
NextSlice ==
  \/ peer_connect
  \/ peer_send
  \/ run_server_accept
  \/ run_server_accept_fails
  \/ run_server_make
  \/ handle_client_sem_wait
  \/ handle_client_loop
  \/ handle_client_report
  \/ handle_client_sem_post
  \/ read_available_ioctl
  \/ read_available_realloc
  \/ read_available_read
  \/ read_available_check
  \/ slice_client_buffer_call
  \/ slice_client_buffer_sem_wait
  \/ slice_client_buffer_copy
  \/ slice_client_buffer_sem_post

SpecSlice == Init /\ [][NextSlice]_vars

\* handle_client(client_buffer) once more on the client_buffer it has just
\* returned from, after the peer has sent another chunk: no caller in the
\* file does this, but nothing in handle_client or read_available is tied to
\* the first call
handle_client_again ==
  /\ pc = "accept"
  /\ accepted >= 1
  /\ released[cur]
  /\ nsends[cur] <= MaxSends
  /\ \E n \in ChunkSizes : sent' = [sent EXCEPT ![cur] = @ + n]
  /\ nsends' = [nsends EXCEPT ![cur] = @ + 1]
  /\ released' = [released EXCEPT ![cur] = FALSE]
  /\ pc' = "h_wait"
  /\ UNCHANGED <<connected, consumed, accepted, lock, bufVars, localVars,
                 idle, appended, reported, sliceVars>>

\* the program with the second thread and with client_buffers handed to
\* handle_client again
NextAgain ==
  \/ peer_connect
  \/ peer_send
  \/ run_server_accept
  \/ run_server_accept_fails
  \/ run_server_make
  \/ handle_client_sem_wait
  \/ handle_client_loop
  \/ handle_client_report
  \/ handle_client_sem_post
  \/ handle_client_again
  \/ read_available_ioctl
  \/ read_available_realloc
  \/ read_available_read
  \/ read_available_check
  \/ slice_client_buffer_call
  \/ slice_client_buffer_sem_wait
  \/ slice_client_buffer_copy
  \/ slice_client_buffer_sem_post

SpecAgain == Init /\ [][NextAgain]_vars

\* ---------------------------------------------------------------- claims
\* the client_buffers constructed so far
Buffers == 1..Len(lock)

\* the connections accepted whose lock handle_client has not posted yet
Active == {c \in 1..accepted : c > Len(released) \/ ~released[c]}

\* C1: admission is bounded: in every reachable state the connections that
\* were accepted and whose slot (the lock of their client_buffer) has not been
\* released are at most nrequests, so connection nrequests + 1 is accepted
\* only after an earlier one was released.
C1_AdmissionBounded == Cardinality(Active) <= nrequests

\* C1 witness: every slot is taken by a connection whose peer has sent
\* nothing, and another peer has connected and waits to be accepted.
C1_Witness ==
  /\ Cardinality(Active) = nrequests
  /\ connected > accepted
  /\ accepted >= 1
  /\ sent[accepted] = 0
  /\ pc = "ra_probe"

\* C2: for every client_buffer, after make_client_buffer and any calls of
\* read_available, 0 <= bytes_read <= size, and the storage allocated behind
\* buffer has at least size bytes.
C2_BufferInvariant ==
  \A b \in Buffers :
    /\ 0 <= bytes_read[b]
    /\ bytes_read[b] <= size[b]
    /\ alloc[b] >= size[b]

\* C2 witness: a client_buffer on which read_available returned 0 and then
\* read bytes, after the realloc.
C2_Witness ==
  \E b \in Buffers : idle[b] /\ appended[b] > 0 /\ alloc[b] # INITIAL_SIZE

\* C3: every call of read_available that reads n > 0 bytes advances
\* bytes_read by n, so bytes_read is always the total of the bytes that the
\* calls of read_available on the client_buffer have read.
C3_LengthAdvances == \A b \in Buffers : bytes_read[b] = appended[b]

\* the storage of b holds the stream bytes 0..n-1 of its connection at the
\* offsets 0..n-1
HoldsPrefix(b, n) == \A i \in 0..(n - 1) : PosAt(buffer[b], i) = i

\* C4: appending keeps what was there and puts the bytes read behind it, so
\* after any calls of read_available the buffer holds, in order, all the
\* bytes those calls have read from the connection.
C4_AppendKeepsContents == \A b \in Buffers : HoldsPrefix(b, appended[b])

\* C5: when the bytes probed exceed the free space, the storage is grown
\* before the read, so that the read of available bytes at offset bytes_read
\* lies inside it; the storage never shrinks and no read stores past its end.
C5_GrowsBeforeRead ==
  /\ pc = "ra_read" => alloc[cur] >= bytes_read[cur] + available
  /\ \A b \in Buffers : alloc[b] >= INITIAL_SIZE /\ overflow[b] = 0

\* C6: a read that returns fewer bytes than were probed ends the program in
\* panic: the step that follows the short read is the panic, it leaves
\* bytes_read, the value read_available returns and the report alone, and
\* nothing happens once the program has panicked.
C6_ShortReadIsFatal ==
  [][ /\ (pc = "ra_check" /\ length # available /\ pc' # pc)
          => (pc' = "panicked" /\ UNCHANGED <<bufVars, read, ghostVars>>)
      /\ (pc = "panicked" => UNCHANGED vars) ]_vars

\* C6 witness: the program has panicked after a read that returned some but
\* not all of the bytes probed.
C6_Witness == pc = "panicked" /\ 0 <= length /\ length < available

C8_BuffersHoldOwnBytes ==
  accepted <= nrequests =>
    \A b \in Buffers :
      released[b] =>
        /\ HoldsPrefix(b, consumed[b])
        /\ \A i \in 0..(alloc[b] - 1) : PosAt(buffer[b], i) \in {-1, i}

\* C9: slice_client_buffer with l <= r inside the buffer's contents copies
\* out the r-l+1 bytes at the offsets l..r in order, the k-th byte of the
\* result being buffer[l+k], and leaves data, length and capacity alone.
C9_SliceCopiesRange ==
  [][ (spc = "copy" /\ spc' = "post" /\ sl <= sr
         /\ \A i \in sl..sr : Stored(sb, i))
      => /\ UNCHANGED bufVars
         /\ \A k \in 0..(sr - sl) :
              k \in DOMAIN to' /\ to'[k] = ByteAt(sb, sl + k) ]_vars

\* handle_client is between its sem_wait and its sem_post
InHandle ==
  pc \in {"h_loop", "ra_probe", "ra_grow", "ra_read", "ra_check", "h_report",
          "h_post"}

\* C10: slice_client_buffer and handle_client's probe, grow and read on the
\* same client_buffer exclude one another: in no reachable state is the copy
\* of a slice under way while handle_client is between its sem_wait and its
\* sem_post on that client_buffer.
C10_MutualExclusion == ~(spc \in {"copy", "post"} /\ sb = cur /\ InHandle)

\* C10 witness: a slice waits for the lock of the client_buffer that
\* read_available is about to read into.
C10_Witness == spc = "wait" /\ sb = cur /\ pc = "ra_read"

\* what slice_client_buffer(b, l, r, to) stores into to when the offsets
\* l..r of b all hold bytes that were received
SliceOf(b, l, r) == [i \in l..r |-> ByteAt(b, i)]

\* the offsets l..r of b lie inside what was received
Received(b, l, r) == \A i \in l..r : Stored(b, i)

\* C11: slice_client_buffer is idempotent: for bounds inside what was already
\* received, no step, and so no append by read_available, changes what a
\* slice with those bounds returns: two calls with the same bounds, at any
\* two times, return the same bytes.
C11_SliceIdempotent ==
  [][ \A b \in Buffers : \A l \in Indices : \A r \in Indices :
        (l <= r /\ Received(b, l, r)) => SliceOf(b, l, r)' = SliceOf(b, l, r) ]_vars

\* handle_client got the lock of b with its sem_wait and has not posted it
ServerHolds(b) == b = cur /\ ~released[b] /\ pc # "h_wait"

\* slice_client_buffer got the lock of b with its sem_wait and has not
\* posted it
SlicerHolds(b) == sb = b /\ spc \in {"copy", "post"}

\* the sem_waits on the lock of b that no sem_post has followed yet
Held(b) ==
  (IF ServerHolds(b) THEN 1 ELSE 0) + (IF SlicerHolds(b) THEN 1 ELSE 0)

\* C12 as stated: every sem_wait is followed by a sem_post on every exit
\* path, the short read of read_available included: when the program has
\* ended on a short read, handle_client's lock has been posted.
C12_ReleasedOnEveryPath ==
  (pc = "panicked" /\ length # available) => lock[cur] = 1

\* C12 as amended: every sem_wait of handle_client and slice_client_buffer is
\* followed by exactly one sem_post on the paths on which they return (the
\* lock is 1 less the sem_waits still inside), the lock is never posted twice
\* (it is 0 or 1), and only the end of the process leaves a lock taken.
C12_ReleasedOnReturn ==
  \A b \in Buffers :
    /\ lock[b] \in {0, 1}
    /\ lock[b] = 1 - Held(b)
    /\ (ServerHolds(b) /\ ~InHandle) => Exited

\* C12 witness: handle_client has returned from a client_buffer that a slice
\* has taken in turn, and one lock is taken, the other free.
C12_Witness ==
  \E b \in Buffers :
    released[b] /\ SlicerHolds(b) /\ lock[b] = 0 /\ pc = "h_post" /\ lock[cur] = 0

\* C13: a failure of accept is not fatal: run_server reports it and retries,
\* so no step of the acceptor at its accept call ends the process.
C13_AcceptFailureRetried == [][pc = "accept" => ~Exited']_vars

\* the client_buffers allocated and not freed, each with its client socket
\* open: the program has no free and no close, so these are all it made
Live == Buffers

\* C14: a client_buffer is destroyed when its connection's processing
\* completes: the live client_buffers and open client sockets are never more
\* than nrequests.
C14_LiveBuffersBounded == Cardinality(Live) <= nrequests

\* the steps of the server's thread that the scheduler lets it take (accept
\* returning -1 is up to the system, not the scheduler)
Server ==
  \/ run_server_accept
  \/ run_server_make
  \/ handle_client_sem_wait
  \/ handle_client_loop
  \/ handle_client_report
  \/ handle_client_sem_post
  \/ read_available_ioctl
  \/ read_available_realloc
  \/ read_available_read
  \/ read_available_check

\* the program with its thread always scheduled; the peers are free to
\* connect and to send, or not to
SpecFair == Init /\ [][Next]_vars /\ WF_vars(Server)

\* C15: the drain loop never blocks for good: handle_client, once entered for
\* an accepted connection, also one whose peer sends nothing, finishes and
\* posts the lock, and the acceptor is at its accept call again.
C15_DrainLoopFinishes ==
  \A c \in Conns :
    (accepted = c /\ pc = "h_wait")
      ~> ((c \in Buffers /\ released[c] /\ pc = "accept") \/ Exited)

\* C16: handle_client stops at the first read_available call that returns 0:
\* it does not leave the loop after a call that appended bytes, and it does
\* not call read_available again after a call that returned 0.
C16_StopsAtFirstZero ==
  /\ pc = "h_report" => read = 0
  /\ pc = "ra_probe" => ~idle[cur]

\* the server's thread is inside a read_available call
InRead == pc \in {"ra_probe", "ra_grow", "ra_read", "ra_check"}

\* C17: read_available's probe, grow and read run with the client_buffer's
\* lock held by the calling thread: while a call is under way the semaphore
\* is 0, its holder is handle_client, and no other thread is inside a section
\* of that client_buffer.
C17_ReadUnderLock ==
  InRead => (lock[cur] = 0 /\ ServerHolds(cur) /\ ~SlicerHolds(cur))

\* C17 witness: read_available has read a whole chunk into the client_buffer
\* and its lock is taken.
C17_Witness ==
  pc = "ra_check" /\ length = available /\ available > 0 /\ lock[cur] = 0

\* C18: when the probe finds nothing queued, the call returns 0 as the
\* thread's very next step, nothing is read from the socket, and the
\* client_buffer's storage, bytes_read, size and lock are as before.
C18_ZeroProbeReturnsZero ==
  [][ (pc = "ra_probe" /\ sent[cur] = consumed[cur] /\ pc' # pc)
        => (pc' = "h_loop" /\ read' = 0 /\ UNCHANGED <<bufVars, consumed, lock>>) ]_vars

\* C18 witness: a call has returned 0 to handle_client's loop, nothing is in
\* the client_buffer and nothing was taken from the socket.
C18_Witness ==
  /\ pc = "h_loop"
  /\ idle[cur]
  /\ read = 0
  /\ buffer[cur] = << >>
  /\ consumed[cur] = 0
  /\ lock[cur] = 0

\* C19: run_server handles one connection at a time: when connection k + 1 is
\* accepted, handle_client has reported and posted the lock for every
\* connection up to k, and at its accept call no handle_client is running.
C19_OneAtATime ==
  /\ \A c \in 1..(accepted - 1) : released[c] /\ reported[c] >= 0
  /\ pc = "accept" => \A c \in 1..accepted : released[c]

\* C19 witness: read_available runs for the second connection after
\* handle_client has returned for the first.
C19_Witness ==
  accepted = 2 /\ pc = "ra_probe" /\ released[1] /\ ~released[2]

====
